---- MODULE Spec2Model ----
(***************************************************************************)
(* Cloud.ru FM proxy health gate (cloudru-proxy-health.ts), the fallback   *)
(* chain table and presets (cloudru-model-mapping.ts,                      *)
(* cloudru-fm.constants.ts) and the request-dispatch protocol that         *)
(* composes them.                                                          *)
(*                                                                         *)
(* Time is in milliseconds.  Each caller is one asynchronous task of the   *)
(* single-threaded event loop: an action is the code that runs between two *)
(* suspension points.                                                      *)
(***************************************************************************)
EXTENDS Integers, Sequences, FiniteSets, TLC

(* ------------------------------------------------------------------ *)
(* Bounds of the model                                                  *)
(* ------------------------------------------------------------------ *)

\* how many times the clock may advance
MaxTicks == 2

\* how many health-gate operations may be started in one behaviour
MaxCalls == 2

\* how many requests may be routed in one behaviour
MaxRequests == 1

\* how many substitutions a walk along the fallback chains may make
MaxHops == 4

(* ------------------------------------------------------------------ *)
(* Program constants                                                    *)
(* ------------------------------------------------------------------ *)

DEFAULT_TIMEOUT_MS == 5000

CACHE_TTL_MS == 30000

\* the concurrent tasks of the process
Callers == {1, 2}

\* proxy base URLs handed to the health gate
Endpoints == {"http://localhost:8082", "http://proxy:8082/"}

\* timeoutMs arguments of checkProxyHealth
TimeoutChoices == {1, DEFAULT_TIMEOUT_MS}

\* the tasks that send requests through the routing protocol
Requesters == {1}

\* the proxy base URL requests are routed through
CLOUDRU_PROXY_BASE_URL == "http://localhost:8082"

\* the tiers, in the order the outer tier fallback walks them
TierOrder == <<"big", "middle", "small">>

Tiers == {TierOrder[i] : i \in 1..Len(TierOrder)}

\* the clock advances by one of these amounts (or up to the next abort timer)
TickSteps == {1, CACHE_TTL_MS - 1}

\* the null of `cachedResult`
NULL == [isNull |-> TRUE]

\* "no error is being thrown"
NoError == [kind |-> "none"]

\* a caller that holds no verdict yet
NoVerdict == [none |-> TRUE]

\* a caller that has seen no fetch outcome yet
NoOutcome == [type |-> "none"]

\* the cache has not been written since it was last cleared
NoWrite == [never |-> TRUE]

\* a caller that runs no request
NoRequest == [absent |-> TRUE]

\* `undefined`
Undefined == [undefined |-> TRUE]

\* no table lookup has been called yet
NoLookup == [fn |-> "none"]

\* no walk along the fallback chains has begun
NoWalk == [path |-> <<>>]

(* ------------------------------------------------------------------ *)
(* What `fetch` can do                                                  *)
(* ------------------------------------------------------------------ *)

\* HTTP statuses the proxy may answer with
Statuses == {299, 300}

Responses == {[type |-> "response", status |-> s] : s \in Statuses}

\* the abort raised by controller.abort() when the timer fires
AbortOutcome ==
  [type |-> "throw", isError |-> TRUE, name |-> "AbortError",
   message |-> "This operation was aborted"]

\* values fetch rejects with before the timer fires: connection refused, DNS
\* failure, and a thrown value that is no Error
NetThrows ==
  { [type |-> "throw", isError |-> TRUE, name |-> "TypeError",
     message |-> "connect ECONNREFUSED"],
    [type |-> "throw", isError |-> TRUE, name |-> "TypeError",
     message |-> "getaddrinfo ENOTFOUND"],
    [type |-> "throw", isError |-> FALSE, name |-> "",
     message |-> "boom"] }

VARIABLES
  now,           \* Date.now()
  ticks,         \* clock advances so far
  cachedResult,  \* the module-level cache: NULL or [url, result, expiresAt]
  pc,            \* pc[c]: where caller c stands
  op,            \* op[c]: "none", "probe", "ensure" or "request"
  url,           \* url[c]: proxyUrl of the running call
  tmo,           \* tmo[c]: timeoutMs of the running call
  start,         \* start[c]: `start` of the running probe
  inflight,      \* inflight[c]: the fetch of c is awaiting the network
  verdict,       \* verdict[c]: what checkProxyHealth returned to c
  thrown,        \* thrown[c]: the error the operation of c raised
  outcome,       \* outcome[c]: what the fetch of c settled with
  lastWrite,     \* the last write of the cache since it was last cleared
  ioCount,       \* HTTP probes issued so far
  calls,         \* operations started so far
  req,           \* req[c]: the request of c: [preset, tier, outer]
  curTier,       \* curTier[c]: the tier of the running dispatch attempt
  attempts,      \* attempts[c]: dispatch attempts of the request so far
  checks,        \* checks[c]: health checks of the running attempt
  model,         \* model[c]: the model being dispatched
  pending,       \* pending[c]: substitutes still to try
  consulted,     \* consulted[c]: the fallback chain was looked up
  tried,         \* tried[c]: models dispatched in the running attempt
  via,           \* via[c]: the model and tier a successful attempt reports
  sinceClear,    \* what happened to the cache since the last call began
  lookup,        \* the last call of a table lookup: [fn, arg, out]
  walk           \* a walk along the fallback chains: [path]

\* the variables of the table lookups
tableVars == <<lookup, walk>>

\* the variables of the health gate and of the routing protocol
progVars ==
  <<now, ticks, cachedResult, pc, op, url, tmo, start, inflight, verdict,
    thrown, outcome, lastWrite, ioCount, calls, req, curTier, attempts,
    checks, model, pending, consulted, tried, via, sinceClear>>

vars == <<progVars, tableVars>>

\* the variables of the health gate's callers
gateVars == <<op, url, tmo, start, inflight, verdict, thrown, outcome>>

\* the variables of the routing protocol
routeVars ==
  <<req, curTier, attempts, checks, model, pending, consulted, tried, via>>

(* ------------------------------------------------------------------ *)
(* checkProxyHealth                                                     *)
(* ------------------------------------------------------------------ *)

\* a changed ResponseOk: every status from 200 up counts as healthy
ResponseOkNoUpperLimit(status) == status >= 200

\* response.ok of the fetch API: a status in 200..299
ResponseOk(status) == status >= 200 /\ status <= 299

\* a changed CacheValid: the entry of any endpoint is served
CacheValidAnyUrl(proxyUrl) ==
  /\ cachedResult # NULL
  /\ now < cachedResult.expiresAt

\* a changed CacheValid: an entry is still served at the instant it expires
CacheValidInclusive(proxyUrl) ==
  /\ cachedResult # NULL
  /\ cachedResult.url = proxyUrl
  /\ now <= cachedResult.expiresAt

\* the cache check at the head of checkProxyHealth
CacheValid(proxyUrl) ==
  /\ cachedResult # NULL
  /\ cachedResult.url = proxyUrl
  /\ now < cachedResult.expiresAt

\* the verdict built from a response
ResultOfResponse(status, latencyMs) ==
  IF ResponseOk(status)
  THEN [ok |-> TRUE, status |-> status, latencyMs |-> latencyMs]
  ELSE [ok |-> FALSE, status |-> status, latencyMs |-> latencyMs,
        error |-> "HTTP " \o ToString(status)]

\* a changed CatchMessage: an abort is reported by its own message
CatchMessageRaw(err) == err.message

\* `message` of the catch block
CatchMessage(err) ==
  IF err.isError
  THEN IF err.name = "AbortError" THEN "timeout" ELSE err.message
  ELSE err.message

\* the verdict built in the catch block
ResultOfThrow(err, latencyMs) ==
  [ok |-> FALSE, latencyMs |-> latencyMs, error |-> CatchMessage(err)]

\* the verdict of a settled fetch
ResultOf(o, latencyMs) ==
  IF o.type = "response"
  THEN ResultOfResponse(o.status, latencyMs)
  ELSE ResultOfThrow(o, latencyMs)

\* a changed CacheEntry: only a healthy verdict is cached
CacheEntryOnlyHealthy(proxyUrl, result) ==
  IF result.ok
  THEN [url |-> proxyUrl, result |-> result, expiresAt |-> now + CACHE_TTL_MS]
  ELSE NULL

\* a changed CacheEntry: the entry lives for the probe timeout only
CacheEntryShortLived(proxyUrl, result) ==
  [url |-> proxyUrl, result |-> result, expiresAt |-> now + DEFAULT_TIMEOUT_MS]

\* a changed CacheEntry: an entry that is still valid is kept
CacheEntryKeepFresh(proxyUrl, result) ==
  IF CacheValid(proxyUrl)
  THEN cachedResult
  ELSE [url |-> proxyUrl, result |-> result, expiresAt |-> now + CACHE_TTL_MS]

\* the cache entry written after a probe
CacheEntry(proxyUrl, result) ==
  [url |-> proxyUrl, result |-> result, expiresAt |-> now + CACHE_TTL_MS]

(* ------------------------------------------------------------------ *)
(* ensureProxyHealthy                                                   *)
(* ------------------------------------------------------------------ *)

\* a changed EnsureError: the error is of the kind the fallback loop catches
EnsureErrorAsFailover(proxyUrl, result) ==
  [kind |-> "ModelUnavailable",
   endpoint |-> proxyUrl,
   detail |-> IF "error" \in DOMAIN result THEN result.error ELSE "unknown",
   remediation |-> "docker compose -f docker-compose.cloudru-proxy.yml up -d"]

\* the plain Error ensureProxyHealthy throws (the spec's TransportUnavailable):
\* its message names the URL, `result.error ?? "unknown"` and the command
\* that starts the proxy
EnsureError(proxyUrl, result) ==
  [kind |-> "TransportUnavailable",
   endpoint |-> proxyUrl,
   detail |-> IF "error" \in DOMAIN result THEN result.error ELSE "unknown",
   remediation |-> "docker compose -f docker-compose.cloudru-proxy.yml up -d"]

\* a changed EnsureThrows: the test of the verdict is inverted
EnsureThrowsInverted(proxyUrl, result) ==
  IF result.ok THEN EnsureError(proxyUrl, result) ELSE NoError

\* what ensureProxyHealthy raises for a verdict
EnsureThrows(proxyUrl, result) ==
  IF ~result.ok THEN EnsureError(proxyUrl, result) ELSE NoError

(* ------------------------------------------------------------------ *)
(* Model catalog, presets and fallback chains                           *)
(* ------------------------------------------------------------------ *)

CLOUDRU_FM_MODELS ==
  [ k \in {"glm-4.7", "glm-4.7-flashx", "glm-4.7-flash", "qwen3-coder-480b"} |->
      CASE k = "glm-4.7" -> "zai-org/GLM-4.7"
        [] k = "glm-4.7-flashx" -> "zai-org/GLM-4.7-FlashX"
        [] k = "glm-4.7-flash" -> "zai-org/GLM-4.7-Flash"
        [] k = "qwen3-coder-480b" -> "Qwen/Qwen3-Coder-480B-A35B-Instruct" ]

CLOUDRU_FM_PRESETS ==
  [ k \in {"cloudru-fm-glm47", "cloudru-fm-flash", "cloudru-fm-qwen"} |->
      CASE k = "cloudru-fm-glm47" ->
             [big |-> CLOUDRU_FM_MODELS["glm-4.7"],
              middle |-> CLOUDRU_FM_MODELS["glm-4.7-flashx"],
              small |-> CLOUDRU_FM_MODELS["glm-4.7-flash"],
              label |-> "GLM-4.7 (Full)", free |-> FALSE]
        [] k = "cloudru-fm-flash" ->
             [big |-> CLOUDRU_FM_MODELS["glm-4.7-flash"],
              middle |-> CLOUDRU_FM_MODELS["glm-4.7-flash"],
              small |-> CLOUDRU_FM_MODELS["glm-4.7-flash"],
              label |-> "GLM-4.7-Flash (Free)", free |-> TRUE]
        [] k = "cloudru-fm-qwen" ->
             [big |-> CLOUDRU_FM_MODELS["qwen3-coder-480b"],
              middle |-> CLOUDRU_FM_MODELS["glm-4.7-flashx"],
              small |-> CLOUDRU_FM_MODELS["glm-4.7-flash"],
              label |-> "Qwen3-Coder-480B", free |-> FALSE] ]

\* a changed CLOUDRU_FALLBACK_CHAINS: one chain lists its own key
CLOUDRU_FALLBACK_CHAINS_SelfReference ==
  [ m \in {CLOUDRU_FM_MODELS[k] : k \in DOMAIN CLOUDRU_FM_MODELS} |->
      CASE m = CLOUDRU_FM_MODELS["glm-4.7"] ->
             <<CLOUDRU_FM_MODELS["glm-4.7-flashx"], CLOUDRU_FM_MODELS["glm-4.7-flash"]>>
        [] m = CLOUDRU_FM_MODELS["qwen3-coder-480b"] ->
             <<CLOUDRU_FM_MODELS["glm-4.7"], CLOUDRU_FM_MODELS["glm-4.7-flash"]>>
        [] m = CLOUDRU_FM_MODELS["glm-4.7-flashx"] ->
             <<CLOUDRU_FM_MODELS["glm-4.7-flashx"], CLOUDRU_FM_MODELS["glm-4.7-flash"]>>
        [] m = CLOUDRU_FM_MODELS["glm-4.7-flash"] -> <<>> ]

\* a changed CLOUDRU_FALLBACK_CHAINS: the terminal model falls back to the
\* flagship
CLOUDRU_FALLBACK_CHAINS_Cycle ==
  [ m \in {CLOUDRU_FM_MODELS[k] : k \in DOMAIN CLOUDRU_FM_MODELS} |->
      CASE m = CLOUDRU_FM_MODELS["glm-4.7"] ->
             <<CLOUDRU_FM_MODELS["glm-4.7-flashx"], CLOUDRU_FM_MODELS["glm-4.7-flash"]>>
        [] m = CLOUDRU_FM_MODELS["qwen3-coder-480b"] ->
             <<CLOUDRU_FM_MODELS["glm-4.7"], CLOUDRU_FM_MODELS["glm-4.7-flash"]>>
        [] m = CLOUDRU_FM_MODELS["glm-4.7-flashx"] ->
             <<CLOUDRU_FM_MODELS["glm-4.7-flash"]>>
        [] m = CLOUDRU_FM_MODELS["glm-4.7-flash"] ->
             <<CLOUDRU_FM_MODELS["glm-4.7"]>> ]

CLOUDRU_FALLBACK_CHAINS ==
  [ m \in {CLOUDRU_FM_MODELS[k] : k \in DOMAIN CLOUDRU_FM_MODELS} |->
      CASE m = CLOUDRU_FM_MODELS["glm-4.7"] ->
             <<CLOUDRU_FM_MODELS["glm-4.7-flashx"], CLOUDRU_FM_MODELS["glm-4.7-flash"]>>
        [] m = CLOUDRU_FM_MODELS["qwen3-coder-480b"] ->
             <<CLOUDRU_FM_MODELS["glm-4.7"], CLOUDRU_FM_MODELS["glm-4.7-flash"]>>
        [] m = CLOUDRU_FM_MODELS["glm-4.7-flashx"] ->
             <<CLOUDRU_FM_MODELS["glm-4.7-flash"]>>
        [] m = CLOUDRU_FM_MODELS["glm-4.7-flash"] -> <<>> ]

\* property names every object inherits from Object.prototype: a lookup
\* `table[key]` with such a key finds the inherited member
ObjectPrototypeKeys == {"constructor", "toString", "valueOf", "hasOwnProperty"}

\* `table[key]` of a plain object: an own property, a member inherited from
\* Object.prototype, or undefined
Lookup(table, key) ==
  IF key \in DOMAIN table THEN [kind |-> "own", value |-> table[key]]
  ELSE IF key \in ObjectPrototypeKeys THEN [kind |-> "inherited", value |-> key]
  ELSE [kind |-> "undefined"]

\* `CLOUDRU_FALLBACK_CHAINS[model] ?? []` with the type of the value: the
\* table's array, the empty array for undefined, or the function inherited
\* from Object.prototype, which `??` lets through
ChainValue(m) ==
  LET v == Lookup(CLOUDRU_FALLBACK_CHAINS, m) IN
    IF v.kind = "undefined" THEN [type |-> "array", items |-> <<>>]
    ELSE IF v.kind = "own" THEN [type |-> "array", items |-> v.value]
    ELSE [type |-> "function", name |-> v.value]

\* a changed getCloudruFallbackChain: the first substitute is skipped
getCloudruFallbackChainSkipFirst(m) ==
  LET v == Lookup(CLOUDRU_FALLBACK_CHAINS, m) IN
    IF v.kind = "own" /\ v.value # <<>> THEN Tail(v.value) ELSE <<>>

\* a changed getCloudruFallbackChain: the lookup never finds a chain
getCloudruFallbackChainNever(m) == <<>>

\* getCloudruFallbackChain(model) as its callers use it: the array returned
getCloudruFallbackChain(m) ==
  LET r == ChainValue(m) IN
    IF r.type = "array" THEN r.items ELSE r

\* `CLOUDRU_FM_PRESETS[authChoice]` with the type of the value: the preset,
\* undefined, or the function inherited from Object.prototype
PresetValue(authChoice) ==
  LET v == Lookup(CLOUDRU_FM_PRESETS, authChoice) IN
    IF v.kind = "undefined" THEN [type |-> "undefined"]
    ELSE IF v.kind = "own" THEN [type |-> "preset", value |-> v.value]
    ELSE [type |-> "function", name |-> v.value]

\* resolveCloudruPreset(authChoice) as its callers use it: the preset
\* returned, or undefined
resolveCloudruPreset(authChoice) ==
  LET r == PresetValue(authChoice) IN
    IF r.type = "undefined" THEN Undefined
    ELSE IF r.type = "preset" THEN r.value
    ELSE r

\* resolveCloudruModelPreset(choice): a falsy lookup throws, any other value
\* is returned
resolveCloudruModelPreset(choice) ==
  LET preset == PresetValue(choice) IN
    IF preset.type = "undefined"
    THEN [type |-> "throw", message |-> "Unknown cloud.ru FM preset: " \o choice]
    ELSE preset

\* a changed CLOUDRU_MODEL_PRESETS: one preset's small tier is not the free model
CLOUDRU_MODEL_PRESETS_PaidSmall ==
  [ k \in {"glm47-full", "glm47-flash-free", "qwen3-coder"} |->
      CASE k = "glm47-full" ->
             [big |-> CLOUDRU_FM_MODELS["glm-4.7"],
              middle |-> CLOUDRU_FM_MODELS["glm-4.7-flashx"],
              small |-> CLOUDRU_FM_MODELS["glm-4.7-flash"]]
        [] k = "glm47-flash-free" ->
             [big |-> CLOUDRU_FM_MODELS["glm-4.7-flash"],
              middle |-> CLOUDRU_FM_MODELS["glm-4.7-flash"],
              small |-> CLOUDRU_FM_MODELS["glm-4.7-flash"]]
        [] k = "qwen3-coder" ->
             [big |-> CLOUDRU_FM_MODELS["qwen3-coder-480b"],
              middle |-> CLOUDRU_FM_MODELS["glm-4.7-flashx"],
              small |-> CLOUDRU_FM_MODELS["glm-4.7-flashx"]] ]

CLOUDRU_MODEL_PRESETS ==
  [ k \in {"glm47-full", "glm47-flash-free", "qwen3-coder"} |->
      CASE k = "glm47-full" ->
             [big |-> CLOUDRU_FM_MODELS["glm-4.7"],
              middle |-> CLOUDRU_FM_MODELS["glm-4.7-flashx"],
              small |-> CLOUDRU_FM_MODELS["glm-4.7-flash"]]
        [] k = "glm47-flash-free" ->
             [big |-> CLOUDRU_FM_MODELS["glm-4.7-flash"],
              middle |-> CLOUDRU_FM_MODELS["glm-4.7-flash"],
              small |-> CLOUDRU_FM_MODELS["glm-4.7-flash"]]
        [] k = "qwen3-coder" ->
             [big |-> CLOUDRU_FM_MODELS["qwen3-coder-480b"],
              middle |-> CLOUDRU_FM_MODELS["glm-4.7-flashx"],
              small |-> CLOUDRU_FM_MODELS["glm-4.7-flash"]] ]

\* the model identifiers of the catalog
ModelIds == {CLOUDRU_FM_MODELS[k] : k \in DOMAIN CLOUDRU_FM_MODELS}

\* arguments handed to getCloudruFallbackChain: the catalog's identifiers, a
\* short catalog key, an identifier of no catalog, the empty string and
\* names every object inherits
ModelInputs ==
  ModelIds \cup {"glm-4.7", "openai/gpt-4o", ""} \cup ObjectPrototypeKeys

\* arguments handed to the preset resolvers: the wizard's cloud.ru choices, a
\* key of the other preset table, another provider's choice, the empty
\* string and names every object inherits
ChoiceInputs ==
  DOMAIN CLOUDRU_FM_PRESETS \cup {"glm47-full", "openai-api-key", ""}
    \cup ObjectPrototypeKeys

(* ------------------------------------------------------------------ *)
(* The routing protocol: errors and helpers                             *)
(* ------------------------------------------------------------------ *)

\* the error of an attempt whose model and substitutes all failed
ModelUnavailable(tier, chain) ==
  [kind |-> "ModelUnavailable", tier |-> tier, chain |-> chain]

\* the model a preset binds to a tier
TierModel(preset, tier) == preset[tier]

\* the position of a tier in the outer fallback order
TierIndex(tier) == CHOOSE i \in 1..Len(TierOrder) : TierOrder[i] = tier

\* the outer tier-fallback loop catches this error and moves to the next tier
OuterCatches(err) == err.kind = "ModelUnavailable"

(* ------------------------------------------------------------------ *)
(* Initial state                                                        *)
(* ------------------------------------------------------------------ *)

Init ==
  /\ now = 0
  /\ ticks = 0
  /\ cachedResult = NULL
  /\ pc = [c \in Callers |-> "Idle"]
  /\ op = [c \in Callers |-> "none"]
  /\ url = [c \in Callers |-> ""]
  /\ tmo = [c \in Callers |-> 0]
  /\ start = [c \in Callers |-> 0]
  /\ inflight = [c \in Callers |-> FALSE]
  /\ verdict = [c \in Callers |-> NoVerdict]
  /\ thrown = [c \in Callers |-> NoError]
  /\ outcome = [c \in Callers |-> NoOutcome]
  /\ lastWrite = NoWrite
  /\ ioCount = 0
  /\ calls = 0
  /\ req = [c \in Callers |-> NoRequest]
  /\ curTier = [c \in Callers |-> ""]
  /\ attempts = [c \in Callers |-> 0]
  /\ checks = [c \in Callers |-> 0]
  /\ model = [c \in Callers |-> ""]
  /\ pending = [c \in Callers |-> <<>>]
  /\ consulted = [c \in Callers |-> FALSE]
  /\ tried = [c \in Callers |-> <<>>]
  /\ via = [c \in Callers |-> Undefined]
  /\ sinceClear = "none"
  /\ lookup = NoLookup
  /\ walk = NoWalk

(* ------------------------------------------------------------------ *)
(* Actions of the health gate                                           *)
(* ------------------------------------------------------------------ *)

\* checkProxyHealth(proxyUrl, timeoutMs) from its entry to its first
\* suspension: a valid cache entry is returned, otherwise the timer is armed
\* and the fetch is issued
EnterCheck(c, proxyUrl, timeoutMs) ==
  /\ pc' = [pc EXCEPT ![c] = "HealthChecking"]
  /\ url' = [url EXCEPT ![c] = proxyUrl]
  /\ checks' = [checks EXCEPT ![c] = @ + 1]
  /\ IF CacheValid(proxyUrl)
     THEN /\ verdict' = [verdict EXCEPT ![c] = cachedResult.result]
          /\ UNCHANGED <<tmo, start, inflight, ioCount>>
     ELSE /\ tmo' = [tmo EXCEPT ![c] = timeoutMs]
          /\ start' = [start EXCEPT ![c] = now]
          /\ inflight' = [inflight EXCEPT ![c] = TRUE]
          /\ ioCount' = ioCount + 1
          /\ UNCHANGED verdict
  /\ sinceClear' = "none"
  /\ UNCHANGED <<now, ticks, cachedResult, thrown, outcome, lastWrite>>
  /\ UNCHANGED tableVars

\* a caller calls checkProxyHealth(proxyUrl, timeoutMs)
StartProbe(c) ==
  /\ op[c] = "none"
  /\ calls < MaxCalls
  /\ \E proxyUrl \in Endpoints, timeoutMs \in TimeoutChoices :
       EnterCheck(c, proxyUrl, timeoutMs)
  /\ op' = [op EXCEPT ![c] = "probe"]
  /\ calls' = calls + 1
  /\ UNCHANGED <<req, curTier, attempts, model, pending, consulted, tried, via>>

\* a caller calls ensureProxyHealthy(proxyUrl), which calls
\* checkProxyHealth(proxyUrl) with the default timeout
StartEnsure(c) ==
  /\ op[c] = "none"
  /\ calls < MaxCalls
  /\ \E proxyUrl \in Endpoints : EnterCheck(c, proxyUrl, DEFAULT_TIMEOUT_MS)
  /\ op' = [op EXCEPT ![c] = "ensure"]
  /\ calls' = calls + 1
  /\ UNCHANGED <<req, curTier, attempts, model, pending, consulted, tried, via>>

\* checkProxyHealth has returned `result` to c: a bare probe hands it to its
\* caller, ensureProxyHealthy returns or throws
Deliver(c, result) ==
  IF op[c] = "probe"
  THEN /\ pc' = [pc EXCEPT ![c] = "Returned"]
       /\ UNCHANGED thrown
  ELSE /\ thrown' = [thrown EXCEPT ![c] = EnsureThrows(url[c], result)]
       /\ pc' = [pc EXCEPT ![c] =
                  IF thrown'[c] = NoError THEN "HealthOk" ELSE "HealthFailed"]

\* a changed SettleChoices: no timer aborts the fetch
SettleChoicesNoTimer(c) ==
  IF now - start[c] < tmo[c] THEN Responses \cup NetThrows ELSE {}

\* what the awaited fetch of c may settle with now: a response or a network
\* error until the timer fires, the abort once timeoutMs have passed
SettleChoices(c) ==
  (IF now - start[c] <= tmo[c] THEN Responses \cup NetThrows ELSE {})
    \cup (IF now - start[c] >= tmo[c] THEN {AbortOutcome} ELSE {})

\* the fetch of c settles: the try block or the catch block builds the
\* verdict, writes the cache and returns the verdict, and the awaiting code
\* goes on with it
FetchSettle(c) ==
  /\ pc[c] = "HealthChecking"
  /\ inflight[c]
  /\ \E o \in SettleChoices(c) :
       LET result == ResultOf(o, now - start[c]) IN
         /\ cachedResult' = CacheEntry(url[c], result)
         /\ lastWrite' = [url |-> url[c], result |-> result, at |-> now]
         /\ sinceClear' = IF sinceClear = "cleared" THEN "refilled" ELSE sinceClear
         /\ verdict' = [verdict EXCEPT ![c] = result]
         /\ outcome' = [outcome EXCEPT ![c] = o]
         /\ Deliver(c, result)
  /\ inflight' = [inflight EXCEPT ![c] = FALSE]
  /\ start' = [start EXCEPT ![c] = 0]
  /\ tmo' = [tmo EXCEPT ![c] = 0]
  /\ UNCHANGED <<now, ticks, op, url, ioCount, calls>>
  /\ UNCHANGED routeVars
  /\ UNCHANGED tableVars

\* the awaited checkProxyHealth had its verdict from the cache: the awaiting
\* code goes on with it
Resume(c) ==
  /\ pc[c] = "HealthChecking"
  /\ ~inflight[c]
  /\ Deliver(c, verdict[c])
  /\ UNCHANGED <<now, ticks, cachedResult, op, url, tmo, start, inflight,
                 verdict, outcome, lastWrite, sinceClear, ioCount, calls>>
  /\ UNCHANGED routeVars
  /\ UNCHANGED tableVars

\* a changed clearProxyHealthCache: the entry is left in place
ClearCacheKeepsEntry ==
  /\ sinceClear' = "cleared"
  /\ UNCHANGED <<now, ticks, cachedResult, lastWrite, pc, ioCount, calls>>
  /\ UNCHANGED gateVars
  /\ UNCHANGED routeVars
  /\ UNCHANGED tableVars

\* clearProxyHealthCache()
ClearCache ==
  /\ cachedResult' = NULL
  /\ lastWrite' = NoWrite
  /\ sinceClear' = "cleared"
  /\ UNCHANGED <<now, ticks, pc, ioCount, calls>>
  /\ UNCHANGED gateVars
  /\ UNCHANGED routeVars
  /\ UNCHANGED tableVars

\* the abort timers of the probes in flight
Deadlines == {start[c] + tmo[c] : c \in {x \in Callers : inflight[x]}}

\* time passes, but not past an abort timer that has not fired
Tick ==
  /\ ticks < MaxTicks
  /\ \A d \in Deadlines : now < d
  /\ \E step \in TickSteps :
       now' = IF \E d \in Deadlines : d < now + step
              THEN CHOOSE d \in Deadlines : \A e \in Deadlines : d <= e
              ELSE now + step
  /\ ticks' = ticks + 1
  /\ UNCHANGED <<cachedResult, pc, lastWrite, sinceClear, ioCount, calls>>
  /\ UNCHANGED gateVars
  /\ UNCHANGED routeVars
  /\ UNCHANGED tableVars

(* ------------------------------------------------------------------ *)
(* Actions of the routing protocol                                      *)
(* ------------------------------------------------------------------ *)

\* step 1: a request at a tier arrives, under a resolved preset, with or
\* without an outer tier-fallback loop around it
StartRequest(c) ==
  /\ op[c] = "none"
  /\ calls < MaxRequests
  /\ \E authChoice \in DOMAIN CLOUDRU_FM_PRESETS, tier \in Tiers, outer \in BOOLEAN :
       /\ req' = [req EXCEPT ![c] =
                   [preset |-> resolveCloudruPreset(authChoice), tier |-> tier,
                    outer |-> outer]]
       /\ curTier' = [curTier EXCEPT ![c] = tier]
  /\ op' = [op EXCEPT ![c] = "request"]
  /\ calls' = calls + 1
  /\ UNCHANGED <<now, ticks, cachedResult, pc, url, tmo, start, inflight,
                 verdict, thrown, outcome, lastWrite, sinceClear, ioCount, attempts,
                 checks, model, pending, consulted, tried, via>>
  /\ UNCHANGED tableVars

\* step 2: a dispatch attempt begins with ensureProxyHealthy(endpoint)
BeginAttempt(c) ==
  /\ op[c] = "request"
  /\ pc[c] = "Idle"
  /\ attempts' = [attempts EXCEPT ![c] = @ + 1]
  /\ EnterCheck(c, CLOUDRU_PROXY_BASE_URL, DEFAULT_TIMEOUT_MS)
  /\ UNCHANGED <<op, calls, req, curTier, model, pending, consulted, tried, via>>

\* step 3: the transport is healthy; the model bound to the tier is dispatched
BeginDispatch(c) ==
  /\ op[c] = "request"
  /\ pc[c] = "HealthOk"
  /\ pc' = [pc EXCEPT ![c] = "Dispatching"]
  /\ model' = [model EXCEPT ![c] = TierModel(req[c].preset, curTier[c])]
  /\ UNCHANGED <<now, ticks, cachedResult, lastWrite, sinceClear, ioCount, calls, req,
                 curTier, attempts, checks, pending, consulted, tried, via>>
  /\ UNCHANGED gateVars
  /\ UNCHANGED tableVars

\* the provider answers the dispatch of model[c]: success ends the attempt; a
\* model-level failure moves on to the next substitute of the fallback chain
\* of the tier's model, and raises ModelUnavailable when none is left
DispatchResult(c) ==
  /\ op[c] = "request"
  /\ pc[c] = "Dispatching"
  /\ tried' = [tried EXCEPT ![c] = Append(@, model[c])]
  /\ \E succeeded \in BOOLEAN :
       IF succeeded
       THEN /\ pc' = [pc EXCEPT ![c] = "Success"]
            /\ via' = [via EXCEPT ![c] = [model |-> model[c], tier |-> curTier[c]]]
            /\ UNCHANGED <<model, pending, consulted, thrown>>
       ELSE LET rest == IF consulted[c] THEN pending[c]
                        ELSE getCloudruFallbackChain(model[c]) IN
              /\ consulted' = [consulted EXCEPT ![c] = TRUE]
              /\ IF rest = <<>>
                 THEN /\ pc' = [pc EXCEPT ![c] = "ChainExhausted"]
                      /\ thrown' = [thrown EXCEPT ![c] =
                                     ModelUnavailable(curTier[c], tried'[c])]
                      /\ UNCHANGED <<model, pending>>
                 ELSE /\ model' = [model EXCEPT ![c] = Head(rest)]
                      /\ pending' = [pending EXCEPT ![c] = Tail(rest)]
                      /\ UNCHANGED <<pc, thrown>>
              /\ UNCHANGED via
  /\ UNCHANGED <<now, ticks, cachedResult, op, url, tmo, start, inflight,
                 verdict, outcome, lastWrite, sinceClear, ioCount, calls, req, curTier,
                 attempts, checks>>
  /\ UNCHANGED tableVars

\* the attempt of c ended with an error the outer loop catches, and a lower
\* tier is left
CanAdvance(c) ==
  /\ op[c] = "request"
  /\ pc[c] \in {"HealthFailed", "ChainExhausted"}
  /\ req[c].outer
  /\ OuterCatches(thrown[c])
  /\ TierIndex(curTier[c]) < Len(TierOrder)

\* the outer tier-fallback loop catches the error and moves to the next tier
OuterAdvance(c) ==
  /\ CanAdvance(c)
  /\ curTier' = [curTier EXCEPT ![c] = TierOrder[TierIndex(curTier[c]) + 1]]
  /\ pc' = [pc EXCEPT ![c] = "Idle"]
  /\ url' = [url EXCEPT ![c] = ""]
  /\ verdict' = [verdict EXCEPT ![c] = NoVerdict]
  /\ thrown' = [thrown EXCEPT ![c] = NoError]
  /\ outcome' = [outcome EXCEPT ![c] = NoOutcome]
  /\ checks' = [checks EXCEPT ![c] = 0]
  /\ model' = [model EXCEPT ![c] = ""]
  /\ pending' = [pending EXCEPT ![c] = <<>>]
  /\ consulted' = [consulted EXCEPT ![c] = FALSE]
  /\ tried' = [tried EXCEPT ![c] = <<>>]
  /\ UNCHANGED <<now, ticks, cachedResult, op, tmo, start, inflight, lastWrite, sinceClear,
                 ioCount, calls, req, attempts, via>>
  /\ UNCHANGED tableVars

\* the operation of c is over
Settled(c) ==
  \/ op[c] = "probe" /\ pc[c] = "Returned"
  \/ op[c] = "ensure" /\ pc[c] \in {"HealthOk", "HealthFailed"}
  \/ /\ op[c] = "request"
     /\ pc[c] \in {"HealthFailed", "Success", "ChainExhausted"}
     /\ ~CanAdvance(c)

\* the caller takes the result of its operation and is free again
Finish(c) ==
  /\ Settled(c)
  /\ pc' = [pc EXCEPT ![c] = "Idle"]
  /\ op' = [op EXCEPT ![c] = "none"]
  /\ url' = [url EXCEPT ![c] = ""]
  /\ verdict' = [verdict EXCEPT ![c] = NoVerdict]
  /\ thrown' = [thrown EXCEPT ![c] = NoError]
  /\ outcome' = [outcome EXCEPT ![c] = NoOutcome]
  /\ req' = [req EXCEPT ![c] = NoRequest]
  /\ curTier' = [curTier EXCEPT ![c] = ""]
  /\ attempts' = [attempts EXCEPT ![c] = 0]
  /\ checks' = [checks EXCEPT ![c] = 0]
  /\ model' = [model EXCEPT ![c] = ""]
  /\ pending' = [pending EXCEPT ![c] = <<>>]
  /\ consulted' = [consulted EXCEPT ![c] = FALSE]
  /\ tried' = [tried EXCEPT ![c] = <<>>]
  /\ via' = [via EXCEPT ![c] = Undefined]
  /\ UNCHANGED <<now, ticks, cachedResult, tmo, start, inflight, lastWrite, sinceClear,
                 ioCount, calls>>
  /\ UNCHANGED tableVars

(* ------------------------------------------------------------------ *)
(* Actions of the table lookups                                         *)
(* ------------------------------------------------------------------ *)

\* a caller calls getCloudruFallbackChain(model)
CallFallbackChain ==
  /\ \E m \in ModelInputs :
       lookup' = [fn |-> "getCloudruFallbackChain", arg |-> m,
                  out |-> ChainValue(m)]
  /\ UNCHANGED walk
  /\ UNCHANGED progVars

\* a caller calls resolveCloudruPreset(authChoice)
CallResolvePreset ==
  /\ \E authChoice \in ChoiceInputs :
       lookup' = [fn |-> "resolveCloudruPreset", arg |-> authChoice,
                  out |-> PresetValue(authChoice)]
  /\ UNCHANGED walk
  /\ UNCHANGED progVars

\* a caller calls resolveCloudruModelPreset(choice)
CallResolveModelPreset ==
  /\ \E choice \in ChoiceInputs :
       lookup' = [fn |-> "resolveCloudruModelPreset", arg |-> choice,
                  out |-> resolveCloudruModelPreset(choice)]
  /\ UNCHANGED walk
  /\ UNCHANGED progVars

\* a caller reads a preset of CLOUDRU_MODEL_PRESETS
ReadModelPreset ==
  /\ \E k \in DOMAIN CLOUDRU_MODEL_PRESETS :
       lookup' = [fn |-> "CLOUDRU_MODEL_PRESETS", arg |-> k,
                  out |-> [type |-> "preset", value |-> CLOUDRU_MODEL_PRESETS[k]]]
  /\ UNCHANGED walk
  /\ UNCHANGED progVars

\* the models a walk may begin at: those whose chain is an array
WalkStarts == {m \in ModelInputs : ChainValue(m).type = "array"}

\* a walk along the fallback chains begins at a model
StartWalk ==
  /\ \E m \in WalkStarts : walk' = [path |-> <<m>>]
  /\ UNCHANGED lookup
  /\ UNCHANGED progVars

\* the walk moves on to one of the substitutes of the model it stands at
WalkStep ==
  /\ walk.path # <<>>
  /\ Len(walk.path) - 1 < MaxHops
  /\ LET chain == getCloudruFallbackChain(walk.path[Len(walk.path)]) IN
       \E i \in 1..Len(chain) : walk' = [path |-> Append(walk.path, chain[i])]
  /\ UNCHANGED lookup
  /\ UNCHANGED progVars

(* ------------------------------------------------------------------ *)
(* Specifications                                                       *)
(* ------------------------------------------------------------------ *)

\* no caller holds a result it has not taken yet: the continuation of an
\* awaiting caller runs in the microtask drain of the task that settled its
\* promise, before the event loop takes a timer, a response or a new call
Quiet == \A c \in Callers : ~Settled(c)

\* the health gate under concurrent callers
Next ==
  \/ Quiet /\ \E c \in Callers : StartProbe(c)
  \/ Quiet /\ \E c \in Callers : StartEnsure(c)
  \/ Quiet /\ \E c \in Callers : FetchSettle(c)
  \/ Quiet /\ \E c \in Callers : Resume(c)
  \/ \E c \in Callers : Finish(c)
  \/ Quiet /\ ClearCache
  \/ Quiet /\ Tick

Spec == Init /\ [][Next]_vars

\* requests routed through the protocol, one in flight at a time
RouteNext ==
  \/ Quiet /\ \E c \in Requesters : StartRequest(c)
  \/ Quiet /\ \E c \in Requesters : BeginAttempt(c)
  \/ Quiet /\ \E c \in Requesters : BeginDispatch(c)
  \/ Quiet /\ \E c \in Requesters : DispatchResult(c)
  \/ Quiet /\ \E c \in Requesters : OuterAdvance(c)
  \/ Quiet /\ \E c \in Requesters : FetchSettle(c)
  \/ Quiet /\ \E c \in Requesters : Resume(c)
  \/ \E c \in Requesters : Finish(c)
  \/ Quiet /\ ClearCache
  \/ Quiet /\ Tick

\* the event loop runs every continuation that is ready, the abort timer
\* settles a fetch that got no answer, and the provider answers a dispatch
RouteFairness ==
  \A c \in Requesters :
    /\ WF_vars(BeginAttempt(c))
    /\ WF_vars(FetchSettle(c))
    /\ WF_vars(Resume(c))
    /\ WF_vars(BeginDispatch(c))
    /\ WF_vars(DispatchResult(c))

RouteSpec == Init /\ [][RouteNext]_vars /\ RouteFairness

\* the lookups of the model catalog, the presets and the fallback chains
TableNext ==
  \/ CallFallbackChain
  \/ CallResolvePreset
  \/ CallResolveModelPreset
  \/ ReadModelPreset
  \/ StartWalk
  \/ WalkStep

TableSpec == Init /\ [][TableNext]_vars

(* ------------------------------------------------------------------ *)
(* Properties                                                           *)
(* ------------------------------------------------------------------ *)

\* a status of the 2xx class
Is2xx(status) == status \in 200..299

\* the step starts a health check of caller c
StartsCheck(c) == pc[c] = "Idle" /\ pc'[c] = "HealthChecking"

\* the step settles the fetch of caller c
SettlesFetch(c) == inflight[c] /\ ~inflight'[c]

\* the states in which a dispatch attempt is over
Terminal == {"HealthFailed", "Success", "ChainExhausted"}

\* the model of the running attempt's tier followed by its table chain
FullChain(c) ==
  LET primary == req[c].preset[curTier[c]] IN
    <<primary>> \o CLOUDRU_FALLBACK_CHAINS[primary]

\* C1: a request whose health check finds the transport unhealthy ends with
\* TransportUnavailable for the proxy URL: no model was dispatched, no
\* fallback chain was consulted, and from there the request is only handed
\* back to its caller; the outer tier-fallback loop starts no other attempt
\* and the tier stays the one the failed attempt ran at.
C1_TransportFailureAbortsRequest ==
  [][\A c \in Requesters :
       /\ (op'[c] = "request" /\ pc'[c] = "HealthFailed") =>
            /\ thrown'[c].kind = "TransportUnavailable"
            /\ thrown'[c].endpoint = CLOUDRU_PROXY_BASE_URL
            /\ thrown'[c].remediation # ""
            /\ ~verdict'[c].ok
            /\ tried'[c] = <<>>
            /\ ~consulted'[c]
            /\ model'[c] = ""
            /\ (attempts'[c] = 1 => curTier'[c] = req'[c].tier)
       /\ (op[c] = "request" /\ pc[c] = "HealthFailed") =>
            \/ /\ pc'[c] = "HealthFailed"
               /\ curTier'[c] = curTier[c]
               /\ attempts'[c] = attempts[c]
               /\ thrown'[c] = thrown[c]
            \/ op'[c] = "none"]_vars

\* C1 witness: a request at tier big inside an outer tier-fallback loop whose
\* first health check timed out has ended with the transport error.
C1_Witness ==
  \E c \in Requesters :
    /\ op[c] = "request"
    /\ req[c].outer
    /\ req[c].tier = "big"
    /\ attempts[c] = 1
    /\ outcome[c] = AbortOutcome
    /\ pc[c] = "HealthFailed"
    /\ thrown[c].kind = "TransportUnavailable"
    /\ curTier[c] = "big"

\* C2: ensureProxyHealthy throws exactly when the verdict is ok=false; what
\* it throws is the transport error, never the model error, and carries the
\* URL, the verdict's error detail and the remediation text; with ok=true it
\* returns without an error.
C2_EnsureRaisesTransportUnavailable ==
  \A c \in Callers :
    (op[c] = "ensure" /\ pc[c] # "HealthChecking") =>
      /\ pc[c] \in {"HealthOk", "HealthFailed"}
      /\ verdict[c].ok => (pc[c] = "HealthOk" /\ thrown[c] = NoError)
      /\ ~verdict[c].ok =>
           /\ pc[c] = "HealthFailed"
           /\ thrown[c].kind = "TransportUnavailable"
           /\ thrown[c].kind # "ModelUnavailable"
           /\ thrown[c].endpoint = url[c]
           /\ thrown[c].detail = verdict[c].error
           /\ thrown[c].remediation # ""

\* C2 witness: ensureProxyHealthy has thrown after its own probe was answered
\* with a status outside 2xx.
C2_Witness ==
  \E c \in Callers :
    /\ op[c] = "ensure"
    /\ pc[c] = "HealthFailed"
    /\ outcome[c].type = "response"
    /\ ~verdict[c].ok
    /\ thrown[c].kind = "TransportUnavailable"

\* C3: checkProxyHealth never throws; whatever the fetch settled with, the
\* caller gets a verdict, ok=true exactly for a 2xx response and otherwise
\* ok=false with an error detail.
C3_ProbeNeverFails ==
  \A c \in Callers :
    op[c] = "probe" =>
      /\ pc[c] \in {"HealthChecking", "Returned"}
      /\ thrown[c] = NoError
      /\ pc[c] = "Returned" =>
           /\ verdict[c] # NoVerdict
           /\ ~verdict[c].ok => "error" \in DOMAIN verdict[c]
           /\ outcome[c] # NoOutcome =>
                verdict[c].ok = (outcome[c].type = "response" /\ Is2xx(outcome[c].status))

\* C3 witness: a probe whose fetch rejected with a value that is no Error has
\* returned an unhealthy verdict.
C3_Witness ==
  \E c \in Callers :
    /\ op[c] = "probe"
    /\ pc[c] = "Returned"
    /\ outcome[c].type = "throw"
    /\ ~outcome[c].isError
    /\ ~verdict[c].ok

\* C4: a call of checkProxyHealth for the endpoint of the verdict in the
\* cache, made less than CACHE_TTL_MS after that verdict was written, issues
\* no fetch and returns that very verdict.
C4_SecondCallWithinTtlServedFromCache ==
  [][\A c \in Callers :
       ( /\ StartsCheck(c)
         /\ lastWrite # NoWrite
         /\ lastWrite.url = url'[c]
         /\ now - lastWrite.at < CACHE_TTL_MS )
       => /\ ioCount' = ioCount
          /\ ~inflight'[c]
          /\ verdict'[c] = lastWrite.result]_vars

\* C4 witness: the second call, made after time has passed but within the
\* time-to-live, holds the first call's verdict and one fetch was issued.
C4_Witness ==
  \E c \in Callers :
    /\ pc[c] = "HealthChecking"
    /\ ~inflight[c]
    /\ lastWrite # NoWrite
    /\ lastWrite.url = url[c]
    /\ verdict[c] = lastWrite.result
    /\ now = lastWrite.at + CACHE_TTL_MS - 1
    /\ calls = 2
    /\ ioCount = 1

\* C5: a call of checkProxyHealth for the endpoint of the verdict in the
\* cache, made CACHE_TTL_MS or more after that verdict was written, issues a
\* fetch; and when a fetch settles, the cache entry is replaced by the new
\* verdict for the probed endpoint with the expiry now + CACHE_TTL_MS.
C5_CallAfterTtlProbesAgain ==
  [][\A c \in Callers :
       /\ ( /\ StartsCheck(c)
            /\ lastWrite # NoWrite
            /\ lastWrite.url = url'[c]
            /\ now - lastWrite.at >= CACHE_TTL_MS )
          => /\ inflight'[c]
             /\ ioCount' = ioCount + 1
             /\ start'[c] = now
       /\ SettlesFetch(c) =>
            /\ cachedResult' =
                 [url |-> url[c], result |-> verdict'[c],
                  expiresAt |-> now + CACHE_TTL_MS]
            /\ verdict'[c].latencyMs = now - start[c]]_vars

\* C5 witness: a probe is in flight that started at the very instant the
\* cached verdict of its endpoint expired.
C5_Witness ==
  \E c \in Callers :
    /\ inflight[c]
    /\ lastWrite # NoWrite
    /\ lastWrite.url = url[c]
    /\ cachedResult # NULL
    /\ start[c] = cachedResult.expiresAt
    /\ start[c] = lastWrite.at + CACHE_TTL_MS

\* C6: when a fetch settles, its caller receives the verdict of that fetch,
\* the cache holds that verdict for the probed endpoint whatever it held
\* before (the last write wins), and what other callers hold is untouched.
C6_RacingProbesLastWriteWins ==
  [][\A c \in Callers :
       SettlesFetch(c) =>
         /\ verdict'[c].ok =
              (outcome'[c].type = "response" /\ Is2xx(outcome'[c].status))
         /\ verdict'[c].latencyMs = now - start[c]
         /\ cachedResult' # NULL
         /\ cachedResult'.url = url[c]
         /\ cachedResult'.result = verdict'[c]
         /\ \A d \in Callers \ {c} :
              /\ verdict'[d] = verdict[d]
              /\ inflight'[d] = inflight[d]]_vars

\* C6 witness: two callers probe the same endpoint at overlapping times: the
\* fetch of one was issued before the other wrote its verdict, which the
\* cache holds while the second fetch is still in flight.
C6_Witness ==
  \E c, d \in Callers :
    /\ c # d
    /\ pc[c] = "Returned"
    /\ outcome[c] # NoOutcome
    /\ inflight[d]
    /\ url[c] = url[d]
    /\ ioCount = 2
    /\ lastWrite # NoWrite
    /\ start[d] < lastWrite.at
    /\ cachedResult = [url |-> url[c], result |-> verdict[c],
                       expiresAt |-> lastWrite.at + CACHE_TTL_MS]

\* C7: a fetch that has had no answer when timeoutMs have passed can be
\* settled by the abort; a probe settled by an abort returns ok=false with
\* the error "timeout", and the cache then holds that verdict, whole, for the
\* probed endpoint.
C7_TimeoutYieldsVerdict ==
  [][\A c \in Callers :
       /\ (inflight[c] /\ now - start[c] >= tmo[c]) =>
            AbortOutcome \in SettleChoices(c)
       /\ inflight[c] => now - start[c] <= tmo[c]
       /\ (SettlesFetch(c) /\ outcome'[c].type = "throw"
             /\ outcome'[c].name = "AbortError") =>
            /\ pc'[c] # "HealthChecking"
            /\ verdict'[c] =
                 [ok |-> FALSE, latencyMs |-> now - start[c], error |-> "timeout"]
            /\ cachedResult' =
                 [url |-> url[c], result |-> verdict'[c],
                  expiresAt |-> now + CACHE_TTL_MS]]_vars

\* C7 witness: a probe with the default timeout was aborted by its timer and
\* returned the timeout verdict, which the cache holds.
C7_Witness ==
  \E c \in Callers :
    /\ op[c] = "probe"
    /\ pc[c] = "Returned"
    /\ outcome[c] = AbortOutcome
    /\ verdict[c] =
         [ok |-> FALSE, latencyMs |-> DEFAULT_TIMEOUT_MS, error |-> "timeout"]
    /\ cachedResult # NULL
    /\ cachedResult.url = url[c]
    /\ cachedResult.result = verdict[c]

\* the pc steps of one dispatch attempt
AttemptStep(from, to) ==
  \/ to = from
  \/ from = "Idle" /\ to = "HealthChecking"
  \/ from = "HealthChecking" /\ to \in {"HealthFailed", "HealthOk"}
  \/ from = "HealthOk" /\ to = "Dispatching"
  \/ from = "Dispatching" /\ to \in {"Success", "ChainExhausted"}
  \/ from \in Terminal /\ to = "Idle"

\* C8: a dispatch attempt moves Idle -> HealthChecking -> HealthFailed, or
\* -> HealthOk -> Dispatching -> Success or ChainExhausted, and in no other
\* way; HealthFailed carries the transport error and ChainExhausted the model
\* error; the health check is entered at most once in an attempt; and every
\* attempt that has begun reaches one of the three terminal states.
C8_AttemptStateMachine ==
  /\ [][\A c \in Requesters :
          /\ AttemptStep(pc[c], pc'[c])
          /\ checks'[c] <= 1
          /\ (pc'[c] = "HealthChecking" /\ pc[c] # "HealthChecking") => checks[c] = 0
          /\ pc'[c] = "HealthFailed" => thrown'[c].kind = "TransportUnavailable"
          /\ pc'[c] = "HealthOk" => (verdict'[c].ok /\ thrown'[c] = NoError)
          /\ pc'[c] = "ChainExhausted" => thrown'[c].kind = "ModelUnavailable"
          /\ pc'[c] = "Success" => thrown'[c] = NoError]_vars
  /\ \A c \in Requesters :
       (op[c] = "request" /\ pc[c] = "HealthChecking") ~> (pc[c] \in Terminal)

\* C8 witness: an attempt has run through its health check and a dispatch of
\* three models to ChainExhausted.
C8_Witness ==
  \E c \in Requesters :
    /\ op[c] = "request"
    /\ pc[c] = "ChainExhausted"
    /\ checks[c] = 1
    /\ Len(tried[c]) = 3

\* C9: with the transport healthy, the models dispatched in an attempt are the
\* tier's model followed by its table chain, in table order and without gaps;
\* a success ends the attempt, reported via the model dispatched last at the
\* tier of the attempt, with no error raised and so no tier fallback.
C9_SubstitutesTriedInOrder ==
  \A c \in Requesters :
    (op[c] = "request" /\ pc[c] \in {"Dispatching", "Success", "ChainExhausted"}) =>
      /\ verdict[c].ok
      /\ Len(tried[c]) <= Len(FullChain(c))
      /\ tried[c] = SubSeq(FullChain(c), 1, Len(tried[c]))
      /\ pc[c] = "Dispatching" =>
           /\ Len(tried[c]) < Len(FullChain(c))
           /\ model[c] = FullChain(c)[Len(tried[c]) + 1]
      /\ pc[c] = "Success" =>
           /\ tried[c] # <<>>
           /\ via[c] = [model |-> tried[c][Len(tried[c])], tier |-> curTier[c]]
           /\ thrown[c] = NoError
           /\ ~CanAdvance(c)
           /\ (attempts[c] = 1 => curTier[c] = req[c].tier)

\* C9 witness: under the preset cloudru-fm-glm47 a request at big found GLM-4.7
\* failing and succeeded via GLM-4.7-FlashX, the first substitute, in its
\* first attempt; GLM-4.7-Flash was not tried.
C9_Witness ==
  \E c \in Requesters :
    /\ op[c] = "request"
    /\ pc[c] = "Success"
    /\ req[c].tier = "big"
    /\ attempts[c] = 1
    /\ tried[c] = <<"zai-org/GLM-4.7", "zai-org/GLM-4.7-FlashX">>
    /\ via[c] = [model |-> "zai-org/GLM-4.7-FlashX", tier |-> "big"]

\* C10: with the transport healthy, an attempt is exhausted only after the
\* tier's model and every substitute of its table chain were dispatched and
\* failed; it raises the model error naming the tier of the attempt and the
\* models exhausted; for a model with an empty chain that is the model alone.
C10_ExhaustedChainRaisesModelUnavailable ==
  \A c \in Requesters :
    (op[c] = "request" /\ pc[c] = "ChainExhausted") =>
      /\ verdict[c].ok
      /\ tried[c] = FullChain(c)
      /\ thrown[c] =
           [kind |-> "ModelUnavailable", tier |-> curTier[c], chain |-> FullChain(c)]
      /\ (attempts[c] = 1 => thrown[c].tier = req[c].tier)
      /\ CLOUDRU_FALLBACK_CHAINS[req[c].preset[curTier[c]]] = <<>> =>
           Len(tried[c]) = 1

\* C10 witness: a request at big whose model is GLM-4.7-Flash, which has an
\* empty chain, was exhausted after that one dispatch.
C10_Witness ==
  \E c \in Requesters :
    /\ op[c] = "request"
    /\ pc[c] = "ChainExhausted"
    /\ req[c].tier = "big"
    /\ attempts[c] = 1
    /\ tried[c] = <<"zai-org/GLM-4.7-Flash">>
    /\ thrown[c] =
         [kind |-> "ModelUnavailable", tier |-> "big",
          chain |-> <<"zai-org/GLM-4.7-Flash">>]

(* ------------------------------------------------------------------ *)
(* C11: no fallback chain contains its own key                          *)
(* ------------------------------------------------------------------ *)

\* C11: for every model m, the chain getCloudruFallbackChain(m) returns
\* never contains m itself
C11_ChainNeverContainsItsKey ==
  (lookup.fn = "getCloudruFallbackChain" /\ lookup.out.type = "array")
    => \A i \in 1..Len(lookup.out.items) : lookup.out.items[i] # lookup.arg

\* the chain of the model with the longest chain has been looked up
C11_Witness ==
  /\ lookup.fn = "getCloudruFallbackChain"
  /\ lookup.arg = CLOUDRU_FM_MODELS["qwen3-coder-480b"]
  /\ lookup.out.type = "array"
  /\ Len(lookup.out.items) = 2

(* ------------------------------------------------------------------ *)
(* C12: following the chains ends within 3 hops                         *)
(* ------------------------------------------------------------------ *)

\* substitutions made by the walk so far
Hops == Len(walk.path) - 1

\* C12: a walk that follows getCloudruFallbackChain from any model, through
\* any substitute at each step, makes at most 3 hops, never meets a model
\* twice, and after 3 hops stands at a model with an empty chain
C12_ChainsEndWithinThreeHops ==
  walk.path # <<>> =>
    /\ Hops <= 3
    /\ \A i, j \in 1..Len(walk.path) : i # j => walk.path[i] # walk.path[j]
    /\ Hops = 3 => getCloudruFallbackChain(walk.path[Len(walk.path)]) = <<>>

\* the longest walk: code specialist, flagship, fast flagship, free model
C12_Witness ==
  walk.path = << CLOUDRU_FM_MODELS["qwen3-coder-480b"], CLOUDRU_FM_MODELS["glm-4.7"],
                 CLOUDRU_FM_MODELS["glm-4.7-flashx"], CLOUDRU_FM_MODELS["glm-4.7-flash"] >>

(* ------------------------------------------------------------------ *)
(* C13: the chain lookup of an unknown key                              *)
(* ------------------------------------------------------------------ *)

\* C13: getCloudruFallbackChain returns the table's ordered chain for every
\* key of the table and an empty sequence, never a value that is no
\* sequence, for every other string
C13_UnknownKeyYieldsEmptyChain ==
  lookup.fn = "getCloudruFallbackChain" =>
    /\ lookup.out.type = "array"
    /\ lookup.out.items =
         IF lookup.arg \in DOMAIN CLOUDRU_FALLBACK_CHAINS
         THEN CLOUDRU_FALLBACK_CHAINS[lookup.arg]
         ELSE <<>>

(* ------------------------------------------------------------------ *)
(* C14: the preset lookup of an unknown choice                          *)
(* ------------------------------------------------------------------ *)

\* C14: resolveCloudruPreset returns the full preset for each defined preset
\* identifier and undefined, the not-found signal, for every other string
C14_ResolvePresetRecordOrNotFound ==
  lookup.fn = "resolveCloudruPreset" =>
    IF lookup.arg \in DOMAIN CLOUDRU_FM_PRESETS
    THEN /\ lookup.out.type = "preset"
         /\ lookup.out.value = CLOUDRU_FM_PRESETS[lookup.arg]
    ELSE lookup.out.type = "undefined"

(* ------------------------------------------------------------------ *)
(* C15: every preset binds each tier, and small is the free model       *)
(* ------------------------------------------------------------------ *)

\* C15: every preset of CLOUDRU_FM_PRESETS and of CLOUDRU_MODEL_PRESETS
\* binds one model of the catalog to each of big, middle and small, and
\* binds GLM-4.7-Flash to small
C15_EveryPresetBindsEachTierSmallIsFree ==
  ( /\ lookup.fn \in {"resolveCloudruPreset", "resolveCloudruModelPreset",
                      "CLOUDRU_MODEL_PRESETS"}
    /\ lookup.out.type = "preset" )
    => LET p == lookup.out.value IN
         /\ \A t \in Tiers : t \in DOMAIN p /\ p[t] \in ModelIds
         /\ p.small = "zai-org/GLM-4.7-Flash"

\* the code-specialist preset of CLOUDRU_MODEL_PRESETS has been read
C15_Witness ==
  /\ lookup.fn = "CLOUDRU_MODEL_PRESETS"
  /\ lookup.arg = "qwen3-coder"
  /\ lookup.out.value.big = CLOUDRU_FM_MODELS["qwen3-coder-480b"]

(* ------------------------------------------------------------------ *)
(* C16: the cache is absent at startup and a clear forces a probe       *)
(* ------------------------------------------------------------------ *)

\* C16 as claimed: the cache is absent before the first call, and the first
\* call of checkProxyHealth after clearProxyHealthCache, for any endpoint,
\* issues a fetch
C16_NextCallAfterClearProbes ==
  [][ /\ calls = 0 => cachedResult = NULL
      /\ \A c \in Callers :
           (sinceClear # "none" /\ StartsCheck(c))
             => (inflight'[c] /\ ioCount' = ioCount + 1) ]_vars

\* C16 amended: the cache is absent before the first call, and the first
\* call of checkProxyHealth after clearProxyHealthCache, for any endpoint
\* and however recently it was probed, issues a fetch, unless a probe that
\* was in flight at the clear has settled in between
C16_NextCallAfterClearProbesUnlessRefilled ==
  [][ /\ calls = 0 => cachedResult = NULL
      /\ \A c \in Callers :
           (sinceClear = "cleared" /\ StartsCheck(c))
             => (inflight'[c] /\ ioCount' = ioCount + 1) ]_vars

\* C16 witness: a probe settled, the cache was cleared, and a second call
\* made at the same instant has its own fetch in flight
C16_Witness ==
  \E c \in Callers :
    /\ pc[c] = "HealthChecking"
    /\ inflight[c]
    /\ start[c] = now
    /\ ticks = 0
    /\ cachedResult = NULL
    /\ sinceClear = "none"
    /\ calls = 2
    /\ ioCount = 2
    /\ \A d \in Callers \ {c} : op[d] = "none"

(* ------------------------------------------------------------------ *)
(* C17: one cache entry, keyed by its endpoint                          *)
(* ------------------------------------------------------------------ *)

\* C17: the cache is empty or holds exactly what the last probe to settle
\* wrote for its own endpoint; a settling probe replaces the entry whole; a
\* call is served from the cache only when the entry's endpoint is the
\* call's endpoint, so a call for another endpoint issues a fetch
C17_OneEntryKeyedByEndpoint ==
  [][ /\ cachedResult # NULL =>
           /\ lastWrite # NoWrite
           /\ cachedResult = [url |-> lastWrite.url, result |-> lastWrite.result,
                              expiresAt |-> lastWrite.at + CACHE_TTL_MS]
      /\ \A c \in Callers :
           /\ SettlesFetch(c) =>
                cachedResult' = [url |-> url[c], result |-> verdict'[c],
                                 expiresAt |-> now + CACHE_TTL_MS]
           /\ (StartsCheck(c) /\ ~inflight'[c]) =>
                /\ cachedResult # NULL
                /\ cachedResult.url = url'[c]
                /\ verdict'[c] = cachedResult.result
                /\ ioCount' = ioCount
           /\ (StartsCheck(c) /\ cachedResult # NULL /\ cachedResult.url # url'[c]) =>
                /\ inflight'[c]
                /\ ioCount' = ioCount + 1 ]_vars

\* C17 witness: a call for one endpoint, made after the verdict of the other
\* endpoint was cached and while that entry is within its time-to-live, has
\* its own fetch in flight
C17_Witness ==
  \E c \in Callers :
    /\ pc[c] = "HealthChecking"
    /\ inflight[c]
    /\ cachedResult # NULL
    /\ cachedResult.url = "http://proxy:8082/"
    /\ url[c] = "http://localhost:8082"
    /\ lastWrite.at < start[c]
    /\ now < cachedResult.expiresAt
    /\ ioCount = 2

(* ------------------------------------------------------------------ *)
(* C18: an unhealthy verdict is cached like a healthy one               *)
(* ------------------------------------------------------------------ *)

\* C18: a call of ensureProxyHealthy for the endpoint of an unhealthy
\* verdict that is in the cache, neither expired nor cleared nor replaced,
\* issues no fetch and holds that verdict; and ensureProxyHealthy, served an
\* unhealthy verdict from the cache, throws the transport error with that
\* verdict's detail without a fetch
C18_UnhealthyVerdictServedFromCache ==
  [][\A c \in Callers :
       /\ ( /\ StartsCheck(c)
            /\ op'[c] = "ensure"
            /\ lastWrite # NoWrite
            /\ lastWrite.url = url'[c]
            /\ ~lastWrite.result.ok
            /\ now - lastWrite.at < CACHE_TTL_MS )
          => /\ ioCount' = ioCount
             /\ ~inflight'[c]
             /\ verdict'[c] = lastWrite.result
       /\ ( /\ op[c] = "ensure"
            /\ pc[c] = "HealthChecking"
            /\ ~inflight[c]
            /\ ~verdict[c].ok
            /\ pc'[c] # pc[c] )
          => /\ pc'[c] = "HealthFailed"
             /\ thrown'[c].kind = "TransportUnavailable"
             /\ thrown'[c].endpoint = url[c]
             /\ thrown'[c].detail = verdict[c].error
             /\ ioCount' = ioCount]_vars

\* C18 witness: ensureProxyHealthy, called some time after the one probe
\* that found the endpoint unhealthy, has thrown without a fetch of its own
C18_Witness ==
  \E c \in Callers :
    /\ op[c] = "ensure"
    /\ pc[c] = "HealthFailed"
    /\ outcome[c] = NoOutcome
    /\ thrown[c].kind = "TransportUnavailable"
    /\ lastWrite # NoWrite
    /\ lastWrite.url = url[c]
    /\ verdict[c] = lastWrite.result
    /\ lastWrite.at < now
    /\ calls = 2
    /\ ioCount = 1

====
